---- MODULE Spec2Model ----
(***************************************************************************)
(* Model of tools/pdl/src/bin/generate-canonical-tests.rs: the generator   *)
(* of Rust unit tests for canonical test vectors.                          *)
(*                                                                         *)
(* Strings are sequences of one-character strings, so that concatenation,  *)
(* chunking, formatting and parsing are computed and not assumed.          *)
(***************************************************************************)
EXTENDS Integers, Sequences, FiniteSets, TLC

VARIABLES
    packets,        \* Vec<Packet> deserialized from the JSON document
    packet_names,   \* the allow-list argument of generate_unit_tests
    p,              \* position of the outer loop (1-based index into packets)
    i,              \* `i` of the inner loop: vectors of packets[p] already visited
    tests,          \* the Vec of generated test functions
    stdout,         \* what println! has written, one entry per call
    stderr,         \* what eprintln! has written, one entry per call
    pc,             \* "loop", "done" (returned) or "panicked"
    panic,          \* the kind of the panic that ended the run, or "none"
    hex,            \* argument of a direct call of hexadecimal_to_vec
    vec             \* what that call produced

vars == <<packets, packet_names, p, i, tests, stdout, stderr, pc, panic, hex, vec>>

----------------------------------------------------------------------------
(* Bounds of the model *)

MaxHexLen == 4
MaxPackets == 2
MaxVectors == 2

----------------------------------------------------------------------------
(* Characters and strings *)

DigitChars == <<"0", "1", "2", "3", "4", "5", "6", "7", "8", "9">>
LowerHexChars == <<"a", "b", "c", "d", "e", "f">>
UpperHexChars == <<"A", "B", "C", "D", "E", "F">>

LowerLetters == {"a", "b", "c", "d", "e", "f", "g", "h", "i", "j", "k", "l", "m",
                 "n", "o", "p", "q", "r", "s", "t", "u", "v", "w", "x", "y", "z"}
UpperLetters == {"A", "B", "C", "D", "E", "F", "G", "H", "I", "J", "K", "L", "M",
                 "N", "O", "P", "Q", "R", "S", "T", "U", "V", "W", "X", "Y", "Z"}

Range(s) == {s[k] : k \in 1..Len(s)}

IsDigit(c) == c \in Range(DigitChars)
IsHexDigit(c) == c \in Range(DigitChars) \cup Range(LowerHexChars) \cup Range(UpperHexChars)
IsIdentStart(c) == c \in LowerLetters \cup UpperLetters \cup {"_"}
IsIdentContinue(c) == IsIdentStart(c) \/ IsDigit(c)
IsWhitespace(c) == c = " "

IndexOf(s, c) == CHOOSE k \in 1..Len(s) : s[k] = c

\* The value of one hexadecimal digit, either case.
HexDigitValue(c) ==
    IF c \in Range(DigitChars) THEN IndexOf(DigitChars, c) - 1
    ELSE IF c \in Range(LowerHexChars) THEN IndexOf(LowerHexChars, c) + 9
    ELSE IndexOf(UpperHexChars, c) + 9

\* Display of an unsigned integer in decimal, as `{}` formats it.
RECURSIVE ToDecimal(_)
ToDecimal(n) ==
    IF n < 10 THEN <<DigitChars[n + 1]>>
    ELSE ToDecimal(n \div 10) \o <<DigitChars[(n % 10) + 1]>>

\* Ident::new accepts only a valid identifier; format_ident! panics otherwise.
IsIdent(s) ==
    /\ Len(s) > 0
    /\ IsIdentStart(s[1])
    /\ \A k \in 2..Len(s) : IsIdentContinue(s[k])

----------------------------------------------------------------------------
(* syn::parse_str::<syn::LitInt> applied to "0x" followed by a chunk *)

\* Length of the longest prefix of s made of characters of the set cs.
RECURSIVE PrefixLen(_, _)
PrefixLen(s, cs) ==
    IF Len(s) = 0 \/ s[1] \notin cs THEN 0 ELSE 1 + PrefixLen(Tail(s), cs)

HexDigitChars == Range(DigitChars) \cup Range(LowerHexChars) \cup Range(UpperHexChars)
IdentContinueChars == LowerLetters \cup UpperLetters \cup {"_"} \cup Range(DigitChars)

\* Value of a run of hexadecimal digits in which underscores are skipped.
RECURSIVE DigitsValue(_, _)
DigitsValue(s, acc) ==
    IF Len(s) = 0 THEN acc
    ELSE IF s[1] = "_" THEN DigitsValue(Tail(s), acc)
    ELSE DigitsValue(Tail(s), acc * 16 + HexDigitValue(s[1]))

\* The literal token read from "0x" \o chunk: the digits (with underscores),
\* an optional identifier suffix, then only white space up to the end.
ParseLitInt(chunk) ==
    LET nd == PrefixLen(chunk, HexDigitChars \cup {"_"})
        digits == SubSeq(chunk, 1, nd)
        rest == SubSeq(chunk, nd + 1, Len(chunk))
        ns == IF Len(rest) > 0 /\ IsIdentStart(rest[1])
              THEN PrefixLen(rest, IdentContinueChars) ELSE 0
        suffix == SubSeq(rest, 1, ns)
        after == SubSeq(rest, ns + 1, Len(rest))
        hasDigit == \E k \in 1..nd : IsHexDigit(digits[k])
    IN  IF hasDigit /\ \A k \in 1..Len(after) : IsWhitespace(after[k])
        THEN [ok |-> TRUE, repr |-> <<"0", "x">> \o digits \o suffix,
              value |-> DigitsValue(digits, 0), suffix |-> suffix]
        ELSE [ok |-> FALSE, repr |-> <<>>, value |-> 0, suffix |-> <<>>]

----------------------------------------------------------------------------
(* hexadecimal_to_vec *)

\* Swaps the two characters of every chunk.
Chunks_swapped(s) == [k \in 1..(Len(s) \div 2) |-> <<s[2 * k], s[2 * k - 1]>>]

\* chunks_exact(2): the consecutive two-character chunks of an even-length string.
Chunks(s) == [k \in 1..(Len(s) \div 2) |-> SubSeq(s, 2 * k - 1, 2 * k)]

\* The result of hexadecimal_to_vec: the literals of `vec![...]`, or a panic.
hexadecimal_to_vec(h) ==
    IF Len(h) % 2 # 0
    THEN [ok |-> FALSE, bytes |-> <<>>, panic |-> "EncodingError"]
    ELSE LET lits == [k \in 1..(Len(h) \div 2) |-> ParseLitInt(Chunks(h)[k])]
         IN  IF \E k \in 1..Len(lits) : ~lits[k].ok
             THEN [ok |-> FALSE, bytes |-> <<>>, panic |-> "EncodingError"]
             ELSE [ok |-> TRUE,
                   bytes |-> [k \in 1..Len(lits) |->
                                [repr |-> lits[k].repr, value |-> lits[k].value]],
                   panic |-> "none"]

----------------------------------------------------------------------------
(* serde_json::Value, Option, and the deserialized document *)

None == [some |-> FALSE, val |-> <<>>]
Some(x) == [some |-> TRUE, val |-> x]

\* serde_json::Value.  A number is N::PosInt (a u64), N::NegInt (a negative
\* i64) or N::Float; an object is the sequence of its entries in the order
\* in which the map iterates (ascending keys), with distinct keys.
Null == [kind |-> "null", tag |-> "", int |-> 0, str |-> <<>>, entries |-> <<>>]
Bool(b) == [kind |-> "bool", tag |-> "", int |-> IF b THEN 1 ELSE 0, str |-> <<>>, entries |-> <<>>]
String(s) == [kind |-> "string", tag |-> "", int |-> 0, str |-> s, entries |-> <<>>]
PosInt(n) == [kind |-> "number", tag |-> "PosInt", int |-> n, str |-> <<>>, entries |-> <<>>]
NegInt(n) == [kind |-> "number", tag |-> "NegInt", int |-> n, str |-> <<>>, entries |-> <<>>]
\* A float; the integer n only tells one float of the model from another.
Float(n) == [kind |-> "number", tag |-> "Float", int |-> n, str |-> <<>>, entries |-> <<>>]
Array(vs) == [kind |-> "array", tag |-> "", int |-> 0, str |-> <<>>, entries |-> vs]
Object(es) == [kind |-> "object", tag |-> "", int |-> 0, str |-> <<>>, entries |-> es]

Entry(k, v) == [key |-> k, value |-> v]

\* Value::as_object
as_object(v) == IF v.kind = "object" THEN Some(v.entries) ELSE None

\* Converts every number, keeping the integer part or the magnitude.
as_u64_lossy(v) ==
    IF v.kind = "number"
    THEN Some(IF v.int < 0 THEN 0 - v.int ELSE v.int)
    ELSE [some |-> FALSE, val |-> 0]

\* Value::as_u64: only N::PosInt converts.
as_u64(v) ==
    IF v.kind = "number" /\ v.tag = "PosInt"
    THEN Some(v.int)
    ELSE [some |-> FALSE, val |-> 0]

\* struct TestVector and struct Packet
TestVector(pk, u, o) == [packed |-> pk, unpacked |-> u, packet |-> o]
Packet(n, ts) == [name |-> n, tests |-> ts]

----------------------------------------------------------------------------
(* The body of the loops of generate_unit_tests *)

\* Takes the name of the group, whatever the vector overrides.
EffectiveName_group(packet, test_vector) == packet.name

\* test_vector.packet.as_deref().unwrap_or(packet.name.as_str())
EffectiveName(packet, test_vector) ==
    IF test_vector.packet.some THEN test_vector.packet.val ELSE packet.name

\* Compares with the first name of the list only.
Contains_first(names, name) == Len(names) > 0 /\ names[1] = name

\* packet_names.contains(&packet_name)
Contains(names, name) == \E k \in 1..Len(names) : names[k] = name

\* Numbers the test by its position among the tests generated so far.
TestName_by_selection(packet_name, idx, packed) ==
    packet_name \o <<"_", "v", "e", "c", "t", "o", "r", "_">> \o ToDecimal(Len(tests) + 1)
        \o <<"_", "0", "x">> \o packed

\* "{}_vector_{}_0x{}" with packet_name, i + 1 and the packed string
TestName(packet_name, idx, packed) ==
    packet_name \o <<"_", "v", "e", "c", "t", "o", "r", "_">> \o ToDecimal(idx + 1)
        \o <<"_", "0", "x">> \o packed

\* "{}Packet"
DecoderType(packet_name) == packet_name \o <<"P", "a", "c", "k", "e", "t">>

\* "get_{key}"
Getter(key) == <<"g", "e", "t", "_">> \o key

\* One assertion: the getter and the unsuffixed u64 literal, or the panic.
Assertion(entry) ==
    IF ~IsIdent(Getter(entry.key))
    THEN [panic |-> "IdentError", getter |-> <<>>, value |-> <<>>]
    ELSE IF ~as_u64(entry.value).some
    THEN [panic |-> "VectorShapeError", getter |-> <<>>, value |-> <<>>]
    ELSE [panic |-> "none", getter |-> Getter(entry.key),
          value |-> ToDecimal(as_u64(entry.value).val)]

\* The assertions in the reverse of the order of the entries.
Assertions_reversed(entries) ==
    [k \in 1..Len(entries) |-> Assertion(entries[Len(entries) + 1 - k])]

\* object.iter().map(...): one assertion per entry, in the map's order.
Assertions(entries) == [k \in 1..Len(entries) |-> Assertion(entries[k])]

NoUnit == [name |-> <<>>, packed |-> <<>>, module |-> <<>>, packet_name |-> <<>>,
           assertions |-> <<>>, src |-> <<0, 0>>]

Panicked(kind) == [panic |-> kind, unit |-> NoUnit]

\* What one iteration does with a selected vector: the test function pushed
\* onto `tests`, or the first panic in the order of evaluation.  src records
\* the position of the vector the unit was generated from.
GenerateTest(packet, idx, test_vector, module_name, pos) ==
    LET packet_name == EffectiveName(packet, test_vector)
        test_name == TestName(packet_name, idx, test_vector.packed)
        packed == hexadecimal_to_vec(test_vector.packed)
        object == as_object(test_vector.unpacked)
        assertions == Assertions(object.val)
        bad == {k \in 1..Len(assertions) : assertions[k].panic # "none"}
        first == CHOOSE k \in bad : \A j \in bad : k <= j
    IN  IF ~IsIdent(test_name) THEN Panicked("IdentError")
        ELSE IF ~packed.ok THEN Panicked(packed.panic)
        ELSE IF ~IsIdent(DecoderType(packet_name)) THEN Panicked("IdentError")
        ELSE IF ~object.some THEN Panicked("VectorShapeError")
        ELSE IF ~IsIdent(module_name) THEN Panicked("IdentError")
        ELSE IF bad # {} THEN Panicked(assertions[first].panic)
        ELSE [panic |-> "none",
              unit |-> [name |-> test_name,
                        packed |-> packed.bytes,
                        module |-> module_name,
                        packet_name |-> DecoderType(packet_name),
                        assertions |-> [k \in 1..Len(assertions) |->
                                          [getter |-> assertions[k].getter,
                                           value |-> assertions[k].value]],
                        src |-> pos]]

----------------------------------------------------------------------------
(* The inputs: documents, allow-lists, module name *)

A == <<"A">>
a == <<"a">>
X == <<"x">>
Y == <<"y">>

ModuleName == <<"m">>

\* The documents of exactly g packets holding at most n vectors in all,
\* with names drawn from names and vectors from tvs.
RECURSIVE Documents(_, _, _, _)
Documents(g, n, names, tvs) ==
    IF g = 0 THEN {<<>>}
    ELSE UNION {{<<Packet(name, ts)>> \o rest :
                    name \in names, ts \in [1..k -> tvs],
                    rest \in Documents(g - 1, n - k, names, tvs)} : k \in 0..n}

AllDocuments(names, tvs) ==
    UNION {Documents(g, MaxVectors, names, tvs) : g \in 0..MaxPackets}

\* Names that differ only in case, as group names and as per-vector overrides.
NameChoices == {A, a}
OverrideChoices == {None, Some(a)}

WellFormed == Object(<<Entry(X, PosInt(1)), Entry(Y, PosInt(2))>>)

\* A well-formed vector body, and one whose packed string has odd length
\* and no hexadecimal digit and whose unpacked value is no object.
BodyChoices == {<<<<"0", "1">>, WellFormed>>, <<<<"g">>, Null>>}

TestVectorChoices ==
    {TestVector(b[1], b[2], o) : b \in BodyChoices, o \in OverrideChoices}

AllowLists == {<<>>, <<A>>, <<a>>, <<a, A>>}

\* The unpacked values of the documents of SpecShape: objects of u64 values
\* (one of them empty), objects with a value that is no u64 (-1, a float
\* such as 1.5 or 2^64, a string), and a non-object.
ShapeChoices == {WellFormed,
                 Object(<<Entry(X, PosInt(0)), Entry(Y, PosInt(10))>>),
                 Object(<<>>),
                 Object(<<Entry(X, PosInt(1)), Entry(Y, NegInt(-1))>>),
                 Object(<<Entry(X, Float(18446)), Entry(Y, PosInt(2))>>),
                 Object(<<Entry(X, String(<<"1">>))>>),
                 Array(<<PosInt(1)>>)}

ShapeVectorChoices == {TestVector(<<"0", "1">>, u, None) : u \in ShapeChoices}

ShapeAllowLists == {<<>>, <<A>>}

\* The arguments of the direct calls of hexadecimal_to_vec.
HexAlphabet == {"0", "9", "a", "F", "g", "_", " "}

HexStrings == UNION {[1..n -> HexAlphabet] : n \in 0..MaxHexLen}

----------------------------------------------------------------------------
(* generate_unit_tests *)

NoHex == [ok |-> FALSE, bytes |-> <<>>, panic |-> "none"]

\* The state once the document is read and deserialized.
Started(docs, lists) ==
    /\ packets \in docs
    /\ packet_names \in lists
    /\ p = 1
    /\ i = 0
    /\ tests = <<>>
    /\ stdout = <<>>
    /\ stderr = <<[kind |-> "Reading", text |-> ToDecimal(Len(packet_names))]>>
    /\ pc = "loop"
    /\ panic = "none"
    /\ hex = <<>>
    /\ vec = NoHex

Init == Started(AllDocuments(NameChoices, TestVectorChoices), AllowLists)

InitShape == Started(AllDocuments({A}, ShapeVectorChoices), ShapeAllowLists)

InLoop == pc = "loop" /\ p <= Len(packets) /\ i < Len(packets[p].tests)

CurrentVector == packets[p].tests[i + 1]

CurrentResult == GenerateTest(packets[p], i, CurrentVector, ModuleName, <<p, i + 1>>)

\* Converts the packed string before the allow-list is consulted.
SkipVector_after_convert ==
    /\ InLoop
    /\ ~Contains(packet_names, EffectiveName(packets[p], CurrentVector))
    /\ IF hexadecimal_to_vec(CurrentVector.packed).ok
       THEN /\ stderr' = Append(stderr, [kind |-> "Skipping",
                                         text |-> EffectiveName(packets[p], CurrentVector)])
            /\ i' = i + 1
            /\ UNCHANGED <<pc, panic>>
       ELSE /\ stderr' = Append(stderr, [kind |-> "panic", text |-> <<>>])
            /\ pc' = "panicked"
            /\ panic' = "EncodingError"
            /\ UNCHANGED i
    /\ UNCHANGED <<packets, packet_names, p, tests, stdout, hex, vec>>

\* The vector's name is not in the allow-list: log and continue.
SkipVector ==
    /\ InLoop
    /\ ~Contains(packet_names, EffectiveName(packets[p], CurrentVector))
    /\ stderr' = Append(stderr, [kind |-> "Skipping",
                                 text |-> EffectiveName(packets[p], CurrentVector)])
    /\ i' = i + 1
    /\ UNCHANGED <<packets, packet_names, p, tests, stdout, pc, panic, hex, vec>>

\* Writes each test function as soon as it is generated.
PushTest_incremental ==
    /\ InLoop
    /\ Contains(packet_names, EffectiveName(packets[p], CurrentVector))
    /\ CurrentResult.panic = "none"
    /\ tests' = Append(tests, CurrentResult.unit)
    /\ stdout' = Append(stdout, <<CurrentResult.unit>>)
    /\ i' = i + 1
    /\ UNCHANGED <<packets, packet_names, p, stderr, pc, panic, hex, vec>>

\* The vector is selected and its test function is generated.
PushTest ==
    /\ InLoop
    /\ Contains(packet_names, EffectiveName(packets[p], CurrentVector))
    /\ CurrentResult.panic = "none"
    /\ tests' = Append(tests, CurrentResult.unit)
    /\ i' = i + 1
    /\ UNCHANGED <<packets, packet_names, p, stdout, stderr, pc, panic, hex, vec>>

\* The vector is selected and generating its test function panics.
Panic ==
    /\ InLoop
    /\ Contains(packet_names, EffectiveName(packets[p], CurrentVector))
    /\ CurrentResult.panic # "none"
    /\ pc' = "panicked"
    /\ panic' = CurrentResult.panic
    /\ stderr' = Append(stderr, [kind |-> "panic", text |-> <<>>])
    /\ UNCHANGED <<packets, packet_names, p, i, tests, stdout, hex, vec>>

\* The inner loop is over: the outer loop takes the next packet.
NextPacket ==
    /\ pc = "loop"
    /\ p <= Len(packets)
    /\ i = Len(packets[p].tests)
    /\ p' = p + 1
    /\ i' = 0
    /\ UNCHANGED <<packets, packet_names, tests, stdout, stderr, pc, panic, hex, vec>>

\* Both loops are over: println!("{code}") writes every test function.
WriteCode ==
    /\ pc = "loop"
    /\ p > Len(packets)
    /\ stdout' = Append(stdout, tests)
    /\ pc' = "done"
    /\ UNCHANGED <<packets, packet_names, p, i, tests, stderr, panic, hex, vec>>

Next == SkipVector \/ PushTest \/ Panic \/ NextPacket \/ WriteCode

Spec == Init /\ [][Next]_vars

SpecShape == InitShape /\ [][Next]_vars

----------------------------------------------------------------------------
(* Direct calls of hexadecimal_to_vec *)

InitHex ==
    /\ hex \in HexStrings
    /\ vec = NoHex
    /\ pc = "call"
    /\ panic = "none"
    /\ packets = <<>>
    /\ packet_names = <<>>
    /\ p = 1
    /\ i = 0
    /\ tests = <<>>
    /\ stdout = <<>>
    /\ stderr = <<>>

\* The call returns the tokens of `vec![...]`.
HexReturn ==
    /\ pc = "call"
    /\ hexadecimal_to_vec(hex).ok
    /\ vec' = hexadecimal_to_vec(hex)
    /\ pc' = "returned"
    /\ UNCHANGED <<packets, packet_names, p, i, tests, stdout, stderr, panic, hex>>

\* The assertion or an unwrap of the call panics.
HexPanic ==
    /\ pc = "call"
    /\ ~hexadecimal_to_vec(hex).ok
    /\ vec' = hexadecimal_to_vec(hex)
    /\ pc' = "panicked"
    /\ panic' = hexadecimal_to_vec(hex).panic
    /\ UNCHANGED <<packets, packet_names, p, i, tests, stdout, stderr, hex>>

NextHex == HexReturn \/ HexPanic

SpecHex == InitHex /\ [][NextHex]_vars

----------------------------------------------------------------------------
(* The document as the properties read it *)

\* The positions <<packet, vector>> of the document, in document order.
RECURSIVE PositionsFrom(_)
PositionsFrom(g) ==
    IF g > Len(packets) THEN <<>>
    ELSE [k \in 1..Len(packets[g].tests) |-> <<g, k>>] \o PositionsFrom(g + 1)

AllPositions == PositionsFrom(1)

VectorAt(pos) == packets[pos[1]].tests[pos[2]]

\* The loops have gone past the vector at pos.
Visited(pos) == pos[1] < p \/ (pos[1] = p /\ pos[2] <= i)

\* The override when the vector has one, the name of its group otherwise.
NameOf(pos) ==
    IF VectorAt(pos).packet.some THEN VectorAt(pos).packet.val ELSE packets[pos[1]].name

Allowed(pos) == NameOf(pos) \in Range(packet_names)

Sources(units) == [k \in 1..Len(units) |-> units[k].src]

IsPrefix(pre, s) == Len(pre) <= Len(s) /\ SubSeq(s, 1, Len(pre)) = pre

Before(pos1, pos2) == pos1[1] < pos2[1] \/ (pos1[1] = pos2[1] /\ pos1[2] < pos2[2])

AtVector == pc = "loop" /\ p <= Len(packets) /\ i < Len(packets[p].tests)

\* C1: the generated units are, in document order, exactly the vectors gone
\* past whose effective name is in the allow-list; a run that returns has
\* written one unit for each such vector of the document and no other.
C1_SelectionInDocumentOrder ==
    /\ Sources(tests) = SelectSeq(SelectSeq(AllPositions, Visited), Allowed)
    /\ pc = "done" =>
          /\ Len(stdout) = 1
          /\ Sources(stdout[1]) = SelectSeq(AllPositions, Allowed)

C1_Witness ==
    /\ pc = "done"
    /\ Len(AllPositions) = 2
    /\ ~Allowed(AllPositions[1])
    /\ Allowed(AllPositions[2])
    /\ Sources(stdout[1]) = <<AllPositions[2]>>

\* C2: the effective name of a vector (its override, else its group's name)
\* is the name tested against the allow-list, the prefix of the test name
\* and the stem of the decoder type; a vector with an override is generated
\* exactly when the override is in the allow-list.
C2_EffectiveNameEverywhere ==
    /\ \A k \in 1..Len(tests) :
          LET pos == tests[k].src
              v == VectorAt(pos)
              eff == IF v.packet.some THEN v.packet.val ELSE packets[pos[1]].name
          IN  /\ eff \in Range(packet_names)
              /\ IsPrefix(eff \o <<"_", "v", "e", "c", "t", "o", "r", "_">>, tests[k].name)
              /\ tests[k].packet_name = eff \o <<"P", "a", "c", "k", "e", "t">>
    /\ \A pos \in Range(AllPositions) :
          (Visited(pos) /\ VectorAt(pos).packet.some) =>
             ((\E k \in 1..Len(tests) : tests[k].src = pos)
                <=> VectorAt(pos).packet.val \in Range(packet_names))

\* A vector with override "a" in group "A" is generated as "a" while "A" is
\* not in the allow-list.
C2_Witness ==
    /\ pc = "done"
    /\ A \notin Range(packet_names)
    /\ \E k \in 1..Len(stdout[1]) :
          /\ packets[stdout[1][k].src[1]].name = A
          /\ VectorAt(stdout[1][k].src).packet = Some(a)
          /\ stdout[1][k].packet_name = <<"a", "P", "a", "c", "k", "e", "t">>

\* C3: a panic is always at a vector whose effective name is in the
\* allow-list; a vector whose name is not in it is skipped, whatever it
\* holds, and gets no unit; with an empty allow-list the run never panics
\* and returns having written no unit.
C3_UnselectedNeverFails ==
    /\ pc = "panicked" => Allowed(<<p, i + 1>>)
    /\ \A pos \in Range(AllPositions) :
          (Visited(pos) /\ ~Allowed(pos)) => \A k \in 1..Len(tests) : tests[k].src # pos
    /\ (AtVector /\ ~Allowed(<<p, i + 1>>)) => (ENABLED SkipVector /\ ~ENABLED Panic)
    /\ packet_names = <<>> =>
          /\ pc # "panicked"
          /\ tests = <<>>
          /\ pc = "loop" => ENABLED Next
          /\ pc = "done" => stdout = << <<>> >>

\* A vector with an odd-length, non-hexadecimal packed string and a
\* non-object unpacked value was skipped, and a later vector was generated.
C3_Witness ==
    /\ pc = "done"
    /\ \E pos \in Range(AllPositions) :
          /\ ~Allowed(pos)
          /\ Len(VectorAt(pos).packed) % 2 = 1
          /\ "g" \in Range(VectorAt(pos).packed)
          /\ VectorAt(pos).unpacked.kind # "object"
          /\ \E k \in 1..Len(stdout[1]) : Before(pos, stdout[1][k].src)

\* C8: no two generated test functions have the same name.
C8_UniqueTestNames ==
    \A k, l \in 1..Len(tests) : k # l => tests[k].name # tests[l].name

\* C9: standard output is written at most once, only when both loops are
\* over, and then holds every generated unit; a run that panicked has
\* written nothing and takes no further step.
C9_OutputOnceAtEnd ==
    /\ Len(stdout) <= 1
    /\ stdout # <<>> => (pc = "done" /\ p > Len(packets) /\ stdout = <<tests>>)
    /\ pc = "done" => Len(stdout) = 1
    /\ pc = "panicked" => (stdout = <<>> /\ ~ENABLED Next)

\* A unit had been generated when a later vector panicked.
C9_Witness ==
    /\ pc = "panicked"
    /\ Len(tests) = 1
    /\ stdout = <<>>

\* C10: the name of a unit is <effective name>_vector_<ordinal>_0x<packed>
\* with the ordinal the 1-based position of the vector in the tests of its
\* group, whatever the allow-list selects; two vectors of one group with the
\* same effective name and the same packed string have distinct names.
C10_OrdinalWithinGroup ==
    /\ \A k \in 1..Len(tests) :
          LET pos == tests[k].src
          IN  tests[k].name =
                 NameOf(pos) \o <<"_", "v", "e", "c", "t", "o", "r", "_">>
                    \o ToDecimal(pos[2]) \o <<"_", "0", "x">> \o VectorAt(pos).packed
    /\ \A k, l \in 1..Len(tests) :
          (/\ k # l
           /\ tests[k].src[1] = tests[l].src[1]
           /\ NameOf(tests[k].src) = NameOf(tests[l].src)
           /\ VectorAt(tests[k].src).packed = VectorAt(tests[l].src).packed)
             => tests[k].name # tests[l].name

\* The first unit written comes from the second vector of its group, the
\* first one being unselected.
C10_Witness ==
    /\ pc = "done"
    /\ Len(stdout[1]) = 1
    /\ stdout[1][1].src[2] = 2
    /\ stdout[1][1].name = <<"A", "_", "v", "e", "c", "t", "o", "r", "_", "2", "_", "0", "x", "0", "1">>

----------------------------------------------------------------------------
(* Properties of the assertions, checked under SpecShape *)

\* The number a string of decimal digits denotes.
RECURSIVE DecimalValue(_, _)
DecimalValue(s, acc) ==
    IF Len(s) = 0 THEN acc
    ELSE DecimalValue(Tail(s), acc * 10 + (IndexOf(DigitChars, s[1]) - 1))

IsU64(v) == v.kind = "number" /\ v.tag = "PosInt"

WellShaped(v) ==
    /\ v.kind = "object"
    /\ \A k \in 1..Len(v.entries) : IsU64(v.entries[k].value)

\* C4: a unit generated from an object of u64 values holds one assertion
\* per entry, in the order of the entries, the k-th one comparing get_<key>
\* of the k-th entry with a literal denoting the value of that entry; such a
\* vector, once passed, has exactly one unit.
C4_OneAssertionPerKeyInOrder ==
    /\ \A k \in 1..Len(tests) :
          LET es == VectorAt(tests[k].src).unpacked.entries
              as == tests[k].assertions
          IN  /\ Len(as) = Len(es)
              /\ \A j \in 1..Len(es) :
                    /\ as[j].getter = <<"g", "e", "t", "_">> \o es[j].key
                    /\ Len(as[j].value) > 0
                    /\ as[j].value \in Seq(Range(DigitChars))
                    /\ DecimalValue(as[j].value, 0) = es[j].value.int
    /\ \A pos \in Range(AllPositions) :
          (Visited(pos) /\ Allowed(pos) /\ WellShaped(VectorAt(pos).unpacked)) =>
             Cardinality({k \in 1..Len(tests) : tests[k].src = pos}) = 1

\* A written unit asserts get_x() == 0 and then get_y() == 10.
C4_Witness ==
    /\ pc = "done"
    /\ \E k \in 1..Len(stdout[1]) :
          stdout[1][k].assertions =
             <<[getter |-> <<"g", "e", "t", "_", "x">>, value |-> <<"0">>],
               [getter |-> <<"g", "e", "t", "_", "y">>, value |-> <<"1", "0">>]>>

\* C7: no selected vector whose unpacked value is not an object of u64
\* values is ever passed or given a unit: at such a vector the only step is
\* the panic, which is a VectorShapeError when the packed string converts,
\* and a run that returns had no such vector.
C7_NonU64IsFatal ==
    /\ \A pos \in Range(AllPositions) :
          (Visited(pos) /\ Allowed(pos)) => WellShaped(VectorAt(pos).unpacked)
    /\ \A k \in 1..Len(tests) : WellShaped(VectorAt(tests[k].src).unpacked)
    /\ (AtVector /\ Allowed(<<p, i + 1>>) /\ ~WellShaped(VectorAt(<<p, i + 1>>).unpacked)) =>
          (ENABLED Panic /\ ~ENABLED PushTest /\ ~ENABLED SkipVector)
    /\ (/\ pc = "panicked"
        /\ ~WellShaped(VectorAt(<<p, i + 1>>).unpacked)
        /\ VectorAt(<<p, i + 1>>).packed = <<"0", "1">>) =>
          (panic = "VectorShapeError" /\ stdout = <<>>)
    /\ pc = "done" =>
          \A pos \in Range(AllPositions) :
             Allowed(pos) => WellShaped(VectorAt(pos).unpacked)

\* The run panicked at an object holding -1, after a unit had been generated.
C7_Witness ==
    /\ pc = "panicked"
    /\ panic = "VectorShapeError"
    /\ Len(tests) = 1
    /\ \E k \in 1..Len(VectorAt(<<p, i + 1>>).unpacked.entries) :
          VectorAt(<<p, i + 1>>).unpacked.entries[k].value = NegInt(-1)

----------------------------------------------------------------------------
(* Properties of hexadecimal_to_vec, checked under SpecHex *)

HexDigitsLower == <<"0", "1", "2", "3", "4", "5", "6", "7", "8", "9",
                    "a", "b", "c", "d", "e", "f">>

ToLower(c) ==
    CASE c = "A" -> "a" [] c = "B" -> "b" [] c = "C" -> "c"
      [] c = "D" -> "d" [] c = "E" -> "e" [] c = "F" -> "f"
      [] OTHER -> c

IsHexString(s) == \A k \in 1..Len(s) : ToLower(s[k]) \in Range(HexDigitsLower)

\* Each byte as two lower-case hexadecimal digits, concatenated.
RECURSIVE Reencode(_)
Reencode(bytes) ==
    IF Len(bytes) = 0 THEN <<>>
    ELSE <<HexDigitsLower[(bytes[1].value \div 16) + 1],
           HexDigitsLower[(bytes[1].value % 16) + 1]>> \o Reencode(Tail(bytes))

\* C5: on an even-length string of hexadecimal digits the call returns
\* len/2 literals, the k-th one written 0x<k-th chunk>, each with a value
\* below 256, and the values written back as two digits each give the
\* string again, up to the case of the letters.
C5_HexRoundTrip ==
    (pc # "call" /\ Len(hex) % 2 = 0 /\ IsHexString(hex)) =>
        /\ pc = "returned"
        /\ vec.ok
        /\ Len(vec.bytes) = Len(hex) \div 2
        /\ \A k \in 1..Len(vec.bytes) :
              /\ vec.bytes[k].value \in 0..255
              /\ vec.bytes[k].repr = <<"0", "x", hex[2 * k - 1], hex[2 * k]>>
        /\ Reencode(vec.bytes) = [k \in 1..Len(hex) |-> ToLower(hex[k])]

\* A call on four digits with letters of both cases has returned.
C5_Witness ==
    /\ pc = "returned"
    /\ Len(hex) = 4
    /\ IsHexString(hex)
    /\ "F" \in Range(hex)
    /\ "a" \in Range(hex)
    /\ Len(vec.bytes) = 2

\* C6: a call on a string of odd length, or holding a character that is no
\* hexadecimal digit, panics and returns no bytes.
C6_NonHexIsRejected ==
    (pc # "call" /\ (Len(hex) % 2 = 1 \/ ~IsHexString(hex))) =>
        (pc = "panicked" /\ ~vec.ok /\ vec.bytes = <<>>)

====
